---- MODULE Spec2Model ----
(***************************************************************************)
(* The derived-analytics pipeline of stare: weekly statistics, sector      *)
(* sentiment, top-active ranking and dashboard assembly, over the SQLite   *)
(* tables prices, weekly_stats, sector_sentiment, sector_top_active and    *)
(* sector_dashboard_top10, driven by run_pipeline.                         *)
(*                                                                         *)
(* Numbers: Python floats are modelled by exact rationals <<n, d>> in      *)
(* lowest terms with d > 0; <<0, 0>> is the null value (None / NaN).       *)
(* Dates are session numbers 1, 2, ...; the ISO string of a date orders    *)
(* as the date does.                                                       *)
(***************************************************************************)
EXTENDS Integers, Sequences, FiniteSets, TLC

----------------------------------------------------------------------------
(* Program constants *)

week_sessions == 5
baseline_weeks == 8
MinSectorRows == 5
top_n == 10

(* Bounds of the model *)

\* last session the calendar reaches
MaxDay == 8

----------------------------------------------------------------------------
(* Rational arithmetic *)

Null == <<0, 0>>

\* a missing text (None)
NullStr == "NULL"

IsNull(x) == x[2] = 0

Abs(i) == IF i < 0 THEN -i ELSE i

RECURSIVE Gcd(_, _)
Gcd(a, b) == IF b = 0 THEN a ELSE Gcd(b, a % b)

Rat(n, d) ==
    LET g == Gcd(Abs(n), Abs(d))
        s == IF d < 0 THEN -1 ELSE 1
    IN  <<(s * n) \div g, (s * d) \div g>>

RInt(i) == <<i, 1>>

RAdd(x, y) == Rat(x[1] * y[2] + y[1] * x[2], x[2] * y[2])

RSub(x, y) == Rat(x[1] * y[2] - y[1] * x[2], x[2] * y[2])

RMul(x, y) == Rat(x[1] * y[1], x[2] * y[2])

RDiv(x, y) == Rat(x[1] * y[2], x[2] * y[1])

RLt(x, y) == x[1] * y[2] < y[1] * x[2]

RLe(x, y) == x[1] * y[2] <= y[1] * x[2]

RAbs(x) == <<Abs(x[1]), x[2]>>

RMin(x, y) == IF RLt(y, x) THEN y ELSE x

RMax(x, y) == IF RLt(x, y) THEN y ELSE x

\* int(x) of a non-negative rational
RFloor(x) == x[1] \div x[2]

----------------------------------------------------------------------------
(* The universe CSV (ticker_yahoo, sector), sorted by ticker, and the      *)
(* market data the provider serves.                                        *)

TickerOrder == <<"AAA", "BBB", "CCC", "DDD", "EEE", "FFF">>

Tickers == {TickerOrder[i] : i \in 1..Len(TickerOrder)}

SectorOrder == <<"Fin", "Tech">>

Sectors == {SectorOrder[i] : i \in 1..Len(SectorOrder)}

universe == [t \in Tickers |-> IF t = "CCC" THEN "Tech" ELSE "Fin"]

TickerIdx(t) == CHOOSE i \in 1..Len(TickerOrder) : TickerOrder[i] = t

SectorIdx(s) == CHOOSE i \in 1..Len(SectorOrder) : SectorOrder[i] = s

\* the session on which the model starts
FirstDay == 6

\* first session for which the provider has a bar of the ticker
ListDay == [t \in Tickers |->
              CASE t \in {"AAA", "BBB"} -> 1
                [] t \in {"CCC", "DDD", "EEE"} -> 2
                [] t = "FFF" -> 3]

\* the provider's bars: close and volume of ticker t on session d
Close(t, d) ==
    CASE t \in {"AAA", "BBB", "CCC"} -> 20 + d
      [] t = "DDD" -> 20
      [] t = "EEE" -> 30 - d
      [] t = "FFF" -> 20 + 2 * (d % 2)

Volume(t, d) ==
    CASE t \in {"AAA", "BBB"} -> 3
      [] t \in {"CCC", "DDD"} -> 1 + (d % 2)
      [] OTHER -> 1 + ((d + 1) % 2)

----------------------------------------------------------------------------
(* DataFrame helpers: a frame is a sequence of records *)

RECURSIVE Concat(_)
Concat(ss) == IF Len(ss) = 0 THEN <<>> ELSE Head(ss) \o Concat(Tail(ss))

RECURSIVE SetToSeqAsc(_)
SetToSeqAsc(S) ==
    IF S = {} THEN <<>>
    ELSE LET m == CHOOSE x \in S : \A y \in S : x <= y
         IN  <<m>> \o SetToSeqAsc(S \ {m})

Reverse(s) == [i \in 1..Len(s) |-> s[Len(s) + 1 - i]] \o <<>>

\* the first n rows (DataFrame.head)
HeadN(s, n) == SubSeq(s, 1, IF Len(s) < n THEN Len(s) ELSE n)

\* the last n rows (iloc[-n:])
LastN(s, n) == SubSeq(s, Len(s) - n + 1, Len(s))

\* the rows of s, the row at i going to position pos[i]
Permute(s, pos) ==
    [k \in 1..Len(s) |-> s[CHOOSE i \in 1..Len(s) : pos[i] = k]] \o <<>>

\* The orders the code sorts by: Before(by, a, b) says a sorts strictly
\* before b.
Before(by, a, b) ==
    CASE by = "value" -> RLt(a, b)
      [] by = "dollar_vol_week desc" -> a.dollar_vol_week > b.dollar_vol_week
      [] by = "rank" -> a.rank < b.rank
      [] by = "sector, rank" ->
            \/ SectorIdx(a.sector) < SectorIdx(b.sector)
            \/ (a.sector = b.sector /\ a.rank < b.rank)
      [] by = "strength desc, sector" ->
            \/ a.strength > b.strength
            \/ /\ a.strength = b.strength
               /\ SectorIdx(a.sector) < SectorIdx(b.sector)

\* A stable sort: rows that neither sorts before the other keep their order
\* in s.
StableSort(s, by) ==
    Permute(s, [i \in 1..Len(s) |->
                  Cardinality({j \in 1..Len(s) :
                      \/ Before(by, s[j], s[i])
                      \/ (~Before(by, s[i], s[j]) /\ j < i)}) + 1] \o <<>>)

\* The joins the code makes: the rows that match, the joined row, and the
\* row a left join keeps for a left row without a match.
Match(on, l, r) ==
    CASE on = "universe" -> l.ticker = r.ticker_yahoo
      [] on = "sentiment" -> l.sector = r.sector /\ l.week_ending = r.week_ending
      [] on = "fundamentals" -> l.top.ticker = r.ticker
      [] on = "r7" -> l.a.top.ticker = r.ticker

Join(on, l, r) ==
    CASE on = "universe" ->
            [ticker |-> l.ticker, week_ending |-> l.week_ending,
             weekly_return |-> l.weekly_return,
             dollar_vol_week |-> l.dollar_vol_week,
             week_volume |-> l.week_volume,
             vol_ratio |-> l.vol_ratio, sector |-> r.sector]
      [] on = "sentiment" ->
            [top |-> l, direction |-> r.direction,
             strength |-> RInt(r.strength), raw_score |-> r.raw_score]
      [] on = "fundamentals" ->
            [a |-> l, shortName |-> r.shortName, marketCap |-> r.marketCap]
      [] on = "r7" -> [b |-> l, return_7d |-> r.return_7d]

Fill(on, l) ==
    CASE on = "universe" -> l
      [] on = "sentiment" ->
            [top |-> l, direction |-> NullStr, strength |-> Null, raw_score |-> Null]
      [] on = "fundamentals" -> [a |-> l, shortName |-> NullStr, marketCap |-> Null]
      [] on = "r7" -> [b |-> l, return_7d |-> Null]

\* the rows a left row l gives, ms being the right rows that match it
MergeRow(l, ms, on, how) ==
    IF Len(ms) = 0
    THEN IF how = "left" THEN <<Fill(on, l)>> ELSE <<>>
    ELSE [j \in 1..Len(ms) |-> Join(on, l, ms[j])] \o <<>>

\* DataFrame.merge: every left row, in order, joined with each matching
\* right row; how = "left" keeps an unmatched left row, filled with nulls.
Merge(left, right, on, how) ==
    Concat([i \in 1..Len(left) |->
        MergeRow(left[i], SelectSeq(right, LAMBDA r : Match(on, left[i], r)),
                 on, how)])

\* the primary key of a table
SameKey(which, a, b) ==
    CASE which = "weekly_stats" ->
            a.ticker = b.ticker /\ a.week_ending = b.week_ending
      [] which = "sector_sentiment" ->
            a.sector = b.sector /\ a.week_ending = b.week_ending
      [] which = "sector_top_active" ->
            /\ a.sector = b.sector
            /\ a.week_ending = b.week_ending
            /\ a.rank = b.rank
      [] which = "fundamentals_latest" -> a.ticker = b.ticker

\* INSERT OR REPLACE of one row: a row with the same key is deleted and the
\* new row gets a fresh rowid, i.e. goes to the end of the table scan.
InsertOrReplace(table, row, which) ==
    SelectSeq(table, LAMBDA r : ~SameKey(which, r, row)) \o <<row>>

RECURSIVE SumInts(_)
SumInts(s) == IF Len(s) = 0 THEN 0 ELSE Head(s) + SumInts(Tail(s))

universe_csv ==
    [i \in 1..Len(TickerOrder) |->
        [ticker_yahoo |-> TickerOrder[i], sector |-> universe[TickerOrder[i]]]]

----------------------------------------------------------------------------
(* compute_weekly_stats.py *)

\* a close stored as NULL (no price is negative)
NoClose == 0 - 1

\* the bars stored for ticker t, ascending by date (ds: the dates stored)
TickerBars(t, ds) ==
    [k \in 1..Len(ds) |->
        [ticker |-> t, date |-> ds[k],
         close |-> Close(t, ds[k]), volume |-> Volume(t, ds[k])]] \o <<>>

\* SELECT ticker, date, close, volume FROM prices WHERE close IS NOT NULL
\* ORDER BY ticker, date; p[t] is the set of dates stored for ticker t.
load_prices(p) ==
    Concat([i \in 1..Len(TickerOrder) |->
               TickerBars(TickerOrder[i], SetToSeqAsc(p[TickerOrder[i]]))])

\* the same query on the rows of the table themselves, given ordered by
\* ticker and date
select_prices(rows) == SelectSeq(rows, LAMBDA r : r.close # NoClose)

\* g.dropna(subset=["close"])
dropna_close(g) == SelectSeq(g, LAMBDA r : r.close # NoClose)

\* a weekly_return that forgets the "- 1"
WeeklyReturnGross(first_close, last_close) ==
    IF first_close # 0 THEN Rat(last_close, first_close) ELSE Null

\* weekly_return, given the week's first and last close
WeeklyReturn(first_close, last_close) ==
    IF first_close # 0 THEN RSub(Rat(last_close, first_close), RInt(1)) ELSE Null

\* a vol_ratio over the baseline's total, not its weekly average
VolRatioOfTotal(n_sessions, week_volume, base_total_vol) ==
    IF n_sessions >= week_sessions + baseline_weeks * week_sessions
       /\ base_total_vol # 0
    THEN RDiv(RInt(week_volume), RInt(base_total_vol))
    ELSE Null

\* vol_ratio, given the number of sessions, the week's volume and the
\* baseline's total volume
VolRatio(n_sessions, week_volume, base_total_vol) ==
    IF n_sessions >= week_sessions + baseline_weeks * week_sessions
       /\ base_total_vol # 0
    THEN RDiv(RInt(week_volume), Rat(base_total_vol, baseline_weeks))
    ELSE Null

\* the baseline of g: the n_base_sessions sessions before the week
Baseline(g) ==
    IF Len(g) >= week_sessions + baseline_weeks * week_sessions
    THEN SubSeq(g, Len(g) - (week_sessions + baseline_weeks * week_sessions) + 1,
                Len(g) - week_sessions)
    ELSE <<>>

\* the sums of a row taken over all the sessions of g
WeekRowAllSessions(g, week) ==
    [ticker |-> g[1].ticker,
     week_ending |-> week[week_sessions].date,
     weekly_return |-> WeeklyReturn(week[1].close, week[week_sessions].close),
     dollar_vol_week |->
         SumInts([i \in 1..Len(g) |-> g[i].close * g[i].volume]),
     week_volume |-> SumInts([i \in 1..Len(g) |-> g[i].volume]),
     vol_ratio |->
         VolRatio(Len(g),
                  SumInts([i \in 1..week_sessions |-> week[i].volume]),
                  SumInts([i \in 1..Len(Baseline(g)) |-> Baseline(g)[i].volume]))]

\* the row of one ticker, week being the last n_week sessions of its bars g
WeekRow(g, week) ==
    [ticker |-> g[1].ticker,
     week_ending |-> week[week_sessions].date,
     weekly_return |-> WeeklyReturn(week[1].close, week[week_sessions].close),
     dollar_vol_week |->
         SumInts([i \in 1..week_sessions |-> week[i].close * week[i].volume]),
     week_volume |-> SumInts([i \in 1..week_sessions |-> week[i].volume]),
     vol_ratio |->
         VolRatio(Len(g),
                  SumInts([i \in 1..week_sessions |-> week[i].volume]),
                  SumInts([i \in 1..Len(Baseline(g)) |-> Baseline(g)[i].volume]))]

\* a row for a ticker only beyond n_week sessions
WeeklyRowsBeyond(g) ==
    IF Len(g) <= week_sessions THEN <<>> ELSE <<WeekRow(g, LastN(g, week_sessions))>>

\* the rows of one ticker's group g (its known closes, ascending by date):
\* none when the ticker has fewer than n_week sessions
WeeklyRows(g) ==
    IF Len(g) < week_sessions THEN <<>> ELSE <<WeekRow(g, LastN(g, week_sessions))>>

compute_last_week_stats(frame) ==
    Concat([i \in 1..Len(TickerOrder) |->
        WeeklyRows(dropna_close(
            SelectSeq(frame, LAMBDA r : r.ticker = TickerOrder[i])))])

\* executemany of INSERT OR REPLACE into table which
RECURSIVE UpsertAll(_, _, _)
UpsertAll(table, records, which) ==
    IF Len(records) = 0 THEN table
    ELSE UpsertAll(InsertOrReplace(table, Head(records), which),
                   Tail(records), which)

save_weekly_stats(table, df) ==
    IF Len(df) = 0 THEN table ELSE UpsertAll(table, df, "weekly_stats")

----------------------------------------------------------------------------
(* compute_sector_sentiment.py *)

\* weekly.merge(universe[["ticker_yahoo", "sector"]], left_on="ticker",
\*              right_on="ticker_yahoo", how="inner")
MergeUniverse(weekly) == Merge(weekly, universe_csv, "universe", "inner")

\* the groups of df.groupby("sector"): keys ascending, rows in frame order
GroupBySector(df) ==
    SelectSeq([i \in 1..Len(SectorOrder) |->
                  SelectSeq(df, LAMBDA r : r.sector = SectorOrder[i])],
              LAMBDA g : Len(g) > 0)

\* the median of the ascending non-null values v
MedianSorted(v) ==
    IF Len(v) = 0 THEN Null
    ELSE IF Len(v) % 2 = 1 THEN v[(Len(v) + 1) \div 2]
    ELSE RDiv(RAdd(v[Len(v) \div 2], v[Len(v) \div 2 + 1]), RInt(2))

\* Series.median(): nulls skipped, null when nothing is left
Median(xs) == MedianSorted(StableSort(SelectSeq(xs, LAMBDA x : ~IsNull(x)), "value"))

Clamp(x) == RMax(RInt(-1), RMin(RInt(1), x))

\* (g["weekly_return"] > 0).mean()
Breadth(g) ==
    Rat(Len(SelectSeq(g, LAMBDA r : ~IsNull(r.weekly_return)
                                    /\ RLt(RInt(0), r.weekly_return))),
        Len(g))

BreadthSignal(breadth) == RMul(RSub(breadth, Rat(1, 2)), RInt(2))

MedianRet(g) == Median([i \in 1..Len(g) |-> g[i].weekly_return] \o <<>>)

\* a null median taken as the lowest signal
ReturnSignalOfNullLowest(median_ret) ==
    IF ~IsNull(median_ret) THEN Clamp(RDiv(median_ret, Rat(3, 100)))
    ELSE RInt(-1)

ReturnSignal(median_ret) ==
    IF ~IsNull(median_ret) THEN Clamp(RDiv(median_ret, Rat(3, 100)))
    ELSE RInt(0)

MedianVolRatio(g) == Median([i \in 1..Len(g) |-> g[i].vol_ratio] \o <<>>)

VolumeSignal(median_vol_ratio) ==
    IF ~IsNull(median_vol_ratio)
    THEN Clamp(RDiv(RSub(median_vol_ratio, RInt(1)), Rat(1, 2)))
    ELSE RInt(0)

\* a score that weighs the three signals alike
RawScoreEvenWeights(breadth_signal, return_signal, volume_signal) ==
    RDiv(RAdd(RAdd(breadth_signal, return_signal), volume_signal), RInt(3))

RawScore(breadth_signal, return_signal, volume_signal) ==
    RAdd(RAdd(RMul(Rat(50, 100), breadth_signal),
              RMul(Rat(35, 100), return_signal)),
         RMul(Rat(15, 100), volume_signal))

\* a direction whose neutral band includes its edge
DirectionClosedBand(raw) ==
    IF RLe(RAbs(raw), Rat(5, 100)) THEN "Neutral"
    ELSE IF RLt(RInt(0), raw) THEN "Bullish"
    ELSE "Bearish"

Direction(raw) ==
    IF RLt(RAbs(raw), Rat(5, 100)) THEN "Neutral"
    ELSE IF RLt(RInt(0), raw) THEN "Bullish"
    ELSE "Bearish"

\* a strength rounded to the nearest integer
StrengthRounded(raw) ==
    RFloor(RAdd(RMin(RInt(100), RMul(RAbs(raw), RInt(100))), Rat(1, 2)))

Strength(raw) == RFloor(RMin(RInt(100), RMul(RAbs(raw), RInt(100))))

\* the row appended for a group, given its statistics
ScoredRow(sector, week_ending, n, breadth, median_ret, median_vol_ratio, raw) ==
    [sector |-> sector,
     week_ending |-> week_ending,
     raw_score |-> raw,
     direction |-> Direction(raw),
     strength |-> Strength(raw),
     diagnostics_json |->
         [n_stocks |-> n, breadth |-> breadth,
          median_return |-> median_ret,
          median_vol_ratio |-> median_vol_ratio,
          breadth_signal |-> BreadthSignal(breadth),
          return_signal |-> ReturnSignal(median_ret),
          volume_signal |-> VolumeSignal(median_vol_ratio)]]

GroupStats(g, breadth, median_ret, median_vol_ratio) ==
    ScoredRow(g[1].sector, g[1].week_ending, Len(g),
              breadth, median_ret, median_vol_ratio,
              RawScore(BreadthSignal(breadth), ReturnSignal(median_ret),
                       VolumeSignal(median_vol_ratio)))

SentimentRow(g) == GroupStats(g, Breadth(g), MedianRet(g), MedianVolRatio(g))

\* the groups that get a row
RetainedGroups(groups) == SelectSeq(groups, LAMBDA g : ~(Len(g) < MinSectorRows))

SentimentRows(gs) == [i \in 1..Len(gs) |-> SentimentRow(gs[i])] \o <<>>

compute_sector_sentiment(weekly) ==
    SentimentRows(RetainedGroups(GroupBySector(MergeUniverse(weekly))))

save_sector_sentiment(table, df) == UpsertAll(table, df, "sector_sentiment")

----------------------------------------------------------------------------
(* rank_sector_top_active.py *)

\* g.sort_values("dollar_vol_week", ascending=False): the default kind is
\* quicksort, which is not stable; ties says what the build does with rows
\* of equal dollar_vol_week ("kept": input order, "reversed": the opposite).
sort_values_desc(g, ties) ==
    StableSort(IF ties = "kept" THEN g ELSE Reverse(g), "dollar_vol_week desc")

\* the rows of one sector, h being the sorted group cut to top_n
RankRows(h) ==
    [i \in 1..Len(h) |->
        [sector |-> h[1].sector,
         week_ending |-> h[1].week_ending,
         rank |-> i,
         ticker |-> h[i].ticker,
         dollar_vol_week |-> h[i].dollar_vol_week,
         weekly_return |-> h[i].weekly_return,
         vol_ratio |-> h[i].vol_ratio]] \o <<>>

\* a ranking that forgets the cut at top_n
RankGroupUncut(g, n, ties) == RankRows(sort_values_desc(g, ties))

RankGroup(g, n, ties) == RankRows(HeadN(sort_values_desc(g, ties), n))

RankGroups(gs, n, ties) == Concat([i \in 1..Len(gs) |-> RankGroup(gs[i], n, ties)])

rank_top_active(weekly, n, ties) ==
    RankGroups(GroupBySector(MergeUniverse(weekly)), n, ties)

\* a save that inserts without replacing
SaveAppending(table, df) == table \o df

save_top_active(table, df) == UpsertAll(table, df, "sector_top_active")

----------------------------------------------------------------------------
(* fetch_fundamentals.py: what the provider reports for a ticker, as
   normalize_info leaves it, and the JSON text stored for it.  Two of the
   fundamentals columns are modelled, a text (shortName) and a number
   (marketCap); the others, asof_utc among them, travel the same way. *)

ProviderInfo(t) ==
    [shortName |-> IF t = "EEE" THEN NullStr ELSE t,
     marketCap |-> IF t = "DDD" THEN Null ELSE RInt(100 * TickerIdx(t))]

\* json.dumps(norm)
JsonDumps(t) == "json:" \o t

\* loads_safe: the dict of a JSON text, the empty dict ({}: every field
\* missing) for anything else
loads_safe(js) ==
    IF \E t \in Tickers : js = JsonDumps(t)
    THEN ProviderInfo(CHOOSE t \in Tickers : js = JsonDumps(t))
    ELSE [shortName |-> NullStr, marketCap |-> Null]

\* INSERT OR REPLACE INTO fundamentals_latest, one ticker
upsert_snapshot(table, t) ==
    InsertOrReplace(table,
        [ticker |-> t, normalized_json |-> JsonDumps(t)],
        "fundamentals_latest")

RECURSIVE FetchFundamentalsFor(_, _)
FetchFundamentalsFor(table, ts) ==
    IF Len(ts) = 0 THEN table
    ELSE FetchFundamentalsFor(upsert_snapshot(table, Head(ts)), Tail(ts))

----------------------------------------------------------------------------
(* build_sector_dashboard.py *)

MaxOf(S) == CHOOSE x \in S : \A y \in S : y <= x

\* SELECT MAX(week_ending) FROM sector_sentiment; 0 when there is no row
load_latest_week_ending(table) ==
    IF Len(table) = 0 THEN 0
    ELSE MaxOf({table[i].week_ending : i \in 1..Len(table)})

load_sector_sentiment(table, week_ending) ==
    SelectSeq(table, LAMBDA r : r.week_ending = week_ending)

\* ... WHERE week_ending = :week_ending ORDER BY sector, rank
load_sector_top_active(table, week_ending) ==
    StableSort(SelectSeq(table, LAMBDA r : r.week_ending = week_ending),
               "sector, rank")

\* top_active["ticker"].dropna().unique().tolist(), as a set
UniqueTickers(top_active) == {top_active[i].ticker : i \in 1..Len(top_active)}

\* one row of the expanded frame, d being the dict of its normalized_json
ExpandedRow(row, d) ==
    [ticker |-> row.ticker,
     shortName |-> d.shortName, marketCap |-> d.marketCap]

expand_fundamentals_json(fund_df) ==
    [i \in 1..Len(fund_df) |->
        ExpandedRow(fund_df[i], loads_safe(fund_df[i].normalized_json))] \o <<>>

\* return_7d of one ticker, g being its closes up to asof_date (ascending)
Return7dRows(t, g) ==
    IF Len(g) = 0 THEN <<>>
    ELSE IF Len(g) < 8 THEN <<[ticker |-> t, return_7d |-> Null]>>
    ELSE <<[ticker |-> t,
            return_7d |-> IF LastN(g, 8)[1].close # 0
                          THEN RSub(Rat(LastN(g, 8)[8].close, LastN(g, 8)[1].close),
                                    RInt(1))
                          ELSE Null]>>

\* df: the closes of the requested tickers dated on or before asof_date
Return7dFrame(df) ==
    Concat([i \in 1..Len(TickerOrder) |->
        Return7dRows(TickerOrder[i],
                     SelectSeq(df, LAMBDA r : r.ticker = TickerOrder[i]))])

\* the returns over the latest closes stored, whatever asof_date
compute_7d_returns_latest(p, tickers, asof_date) ==
    IF tickers = {} THEN <<>>
    ELSE Return7dFrame(SelectSeq(load_prices(p), LAMBDA r : r.ticker \in tickers))

\* one row per requested ticker that has a close on or before asof_date
compute_7d_returns(p, tickers, asof_date) ==
    IF tickers = {} THEN <<>>
    ELSE Return7dFrame(SelectSeq(load_prices(p),
             LAMBDA r : r.date <= asof_date /\ r.ticker \in tickers))

\* df[cols] of the merged frame
FlatCols(j3) ==
    [i \in 1..Len(j3) |->
        [sector |-> j3[i].b.a.top.sector,
         week_ending |-> j3[i].b.a.top.week_ending,
         rank |-> j3[i].b.a.top.rank,
         ticker |-> j3[i].b.a.top.ticker,
         direction |-> j3[i].b.a.direction,
         strength |-> j3[i].b.a.strength,
         raw_score |-> j3[i].b.a.raw_score,
         dollar_vol_week |-> j3[i].b.a.top.dollar_vol_week,
         weekly_return |-> j3[i].b.a.top.weekly_return,
         vol_ratio |-> j3[i].b.a.top.vol_ratio,
         marketCap |-> j3[i].b.marketCap,
         shortName |-> j3[i].b.shortName,
         return_7d |-> j3[i].return_7d]] \o <<>>

\* the same join made an inner join
MergeSentimentInner(top_active, sentiment) ==
    Merge(top_active, sentiment, "sentiment", "inner")

\* top_active.merge(sentiment[...], on=["sector", "week_ending"], how="left")
MergeSentiment(top_active, sentiment) ==
    Merge(top_active, sentiment, "sentiment", "left")

\* df.merge(fundamentals_expanded, on="ticker", how="left")
MergeFundamentals(df, fundamentals_expanded) ==
    Merge(df, fundamentals_expanded, "fundamentals", "left")

\* df.merge(r7, on="ticker", how="left")
MergeR7(df, r7) == Merge(df, r7, "r7", "left")

build_flat_dashboard(sentiment, top_active, fundamentals_expanded, r7) ==
    FlatCols(MergeR7(MergeFundamentals(MergeSentiment(top_active, sentiment),
                                       fundamentals_expanded), r7))

NestedEntry(r) ==
    [rank |-> r.rank, ticker |-> r.ticker,
     weekly_return |-> r.weekly_return,
     dollar_vol_week |-> r.dollar_vol_week,
     vol_ratio |-> r.vol_ratio,
     fundamentals |-> [shortName |-> r.shortName, marketCap |-> r.marketCap]]

\* a diagnostics_json that is text but not JSON, and one that is NULL; any
\* other is the JSON text of the dict it is given as, which json.loads
\* gives back
NotJson == [text |-> "{"]

NullJson == [text |-> NullStr]

\* json.loads raises on the diagnostics_json of one of the rows
loads_raises(sentiment) ==
    \E i \in 1..Len(sentiment) : sentiment[i].diagnostics_json = NotJson

\* the sector object of srow, sub being its rows of the flat frame by rank;
\* "diagnostics" is None (NullJson) when diagnostics_json is not a str
Block(srow, sub) ==
    [sector |-> srow.sector,
     week_ending |-> srow.week_ending,
     direction |-> srow.direction,
     strength |-> srow.strength,
     raw_score |-> srow.raw_score,
     diagnostics |-> srow.diagnostics_json,
     top10_active |-> [i \in 1..Len(sub) |-> NestedEntry(sub[i])] \o <<>>]

SectorBlock(srow, flat_top10) ==
    Block(srow, StableSort(SelectSeq(flat_top10, LAMBDA r : r.sector = srow.sector),
                           "rank"))

\* the rows left in the order they were read in
SortSentimentAsRead(sentiment) == sentiment

\* the "sectors" list of the nested document
\* sentiment.sort_values(["strength", "sector"], ascending=[False, True])
SortSentiment(sentiment) ==
    StableSort(sentiment, "strength desc, sector")

Blocks(ss, flat_top10) ==
    [i \in 1..Len(ss) |-> SectorBlock(ss[i], flat_top10)] \o <<>>

build_nested_json(sentiment, flat_top10) == Blocks(SortSentiment(sentiment), flat_top10)

\* the columns the INSERT of upsert_sql_dashboard names
DashRecord(r) ==
    [sector |-> r.sector, week_ending |-> r.week_ending, rank |-> r.rank,
     ticker |-> r.ticker, direction |-> r.direction, strength |-> r.strength,
     raw_score |-> r.raw_score, dollar_vol_week |-> r.dollar_vol_week,
     weekly_return |-> r.weekly_return, vol_ratio |-> r.vol_ratio,
     marketCap |-> r.marketCap, shortName |-> r.shortName]

upsert_sql_dashboard(table, flat) ==
    IF Len(flat) = 0 THEN table
    ELSE [i \in 1..Len(flat) |-> DashRecord(flat[i])] \o <<>>

----------------------------------------------------------------------------
(* State *)

VARIABLES
    today,                  \* the latest session the provider has bars for
    sort_ties,              \* what the build's quicksort does with ties
    write_fault,            \* the write of the dashboard stage that fails, if any
    bars,                   \* the bars the provider has served for one ticker
    prices,                 \* table prices: ticker -> set of dates stored
    fundamentals_latest,    \* table fundamentals_latest
    weekly_stats,           \* table weekly_stats, in rowid order
    sector_sentiment,       \* table sector_sentiment, in rowid order
    sector_top_active,      \* table sector_top_active, in rowid order
    sector_dashboard_top10, \* table sector_dashboard_top10
    out_json,               \* reports/sector_dashboard.json
    out_csv,                \* reports/sector_dashboard_top10.csv
    out_html,               \* reports/sector_dashboard.html
    docs,                   \* docs/: the files published for GitHub Pages
    chunk_idx,              \* fetch_and_store_prices: i, the chunk at hand; 0 not running
    attempt,                \* fetch_and_store_prices: attempts made on that chunk
    tried,                  \* history: the attempts of this call, in order
    pc,                     \* run_pipeline: 0 not running, else index of the next step
    continue_on_error,      \* run_pipeline: --continue-on-error
    failed,                 \* run_pipeline: the steps that failed in this invocation
    last,                   \* the last script run: its name, exit status and frames
    settled,                \* history: the chain ran whole and its inputs are as it read them
    before,                 \* history: what was stored when this invocation started
    g,                      \* a sector's rows of weekly_stats, as they are gathered
    scored                  \* the sentiment rows computed from g

tables == <<weekly_stats, sector_sentiment, sector_top_active,
            sector_dashboard_top10>>

files == <<out_json, out_csv, out_html>>

env == <<today, sort_ties, write_fault, bars>>

control == <<pc, continue_on_error, failed>>

history == <<settled, before>>

score_vars == <<g, scored>>

fetch_vars == <<chunk_idx, attempt, tried>>

vars == <<today, sort_ties, write_fault, bars, prices, fundamentals_latest, weekly_stats,
          sector_sentiment, sector_top_active, sector_dashboard_top10,
          out_json, out_csv, out_html, docs, pc, continue_on_error, failed,
          last, settled, before, g, scored, chunk_idx, attempt, tried>>

NoFile == [exists |-> FALSE, rows |-> <<>>]

File(rows) == [exists |-> TRUE, rows |-> rows]

\* docs/ before anything was published
NoDocs ==
    [index_html |-> NoFile, sector_dashboard_json |-> NoFile,
     sector_dashboard_top10_csv |-> NoFile, nojekyll |-> FALSE]

Ran(stage, ok, df) ==
    [stage |-> stage, ok |-> ok, df |-> df,
     week_ending |-> 0, sentiment |-> <<>>, top_active |-> <<>>, nested |-> <<>>]

STEPS == <<"Universe", "Prices", "Weekly stats", "Sector sentiment",
           "Top active", "Dashboard (JSON/CSV)", "Dashboard (HTML)">>

Min(a, b) == IF a < b THEN a ELSE b

\* chunk_size of fetch_prices, scaled to the model's universe
ChunkSize == 3

\* chunk_list(tickers, n), as the sets of tickers of the chunks
chunk_list ==
    {{TickerOrder[i] : i \in ((k - 1) * ChunkSize + 1)..Min(k * ChunkSize, Len(TickerOrder))}
        : k \in 1..((Len(TickerOrder) + ChunkSize - 1) \div ChunkSize)}

\* what an invocation found stored, and whether it was settled
Snapshot(was_settled) ==
    [settled |-> was_settled, tables |-> tables, files |-> files]

NoSnapshot ==
    [settled |-> FALSE, tables |-> <<>>, files |-> <<>>]

\* the steps of STEPS that make the chain
ChainSteps == {3, 4, 5, 6}

InitStores ==
    /\ prices = [t \in Tickers |-> {}]
    /\ fundamentals_latest = <<>>
    /\ weekly_stats = <<>>
    /\ sector_sentiment = <<>>
    /\ sector_top_active = <<>>
    /\ sector_dashboard_top10 = <<>>
    /\ out_json = NoFile
    /\ out_csv = NoFile
    /\ out_html = NoFile
    /\ docs = NoDocs
    /\ chunk_idx = 0
    /\ attempt = 0
    /\ tried = <<>>
    /\ pc = 0
    /\ continue_on_error = FALSE
    /\ failed = {}
    /\ last = Ran("none", TRUE, <<>>)
    /\ settled = FALSE
    /\ before = NoSnapshot

Init ==
    /\ today = FirstDay
    /\ sort_ties \in {"kept", "reversed"}
    /\ write_fault = "none"
    /\ bars = <<>>
    /\ InitStores
    /\ g = <<>>
    /\ scored = <<>>

----------------------------------------------------------------------------
(* The scripts *)

\* universe_sp500.py: rewrites the universe CSV (the same list every time)
UniverseMain ==
    /\ last' = Ran("Universe", TRUE, <<>>)
    /\ UNCHANGED <<prices, fundamentals_latest, tables, files>>

\* fetch_prices.py: every chunk whose download succeeds (within its retries)
\* upserts the bars of its tickers up to today; the period covers all
\* sessions of the model.  A chunk that fails is skipped.
PricesMain ==
    \E done \in SUBSET chunk_list :
        /\ prices' = [t \in Tickers |->
                        IF \E c \in done : t \in c
                        THEN prices[t] \cup (ListDay[t]..today)
                        ELSE prices[t]]
        /\ last' = Ran("Prices", TRUE, <<>>)
        /\ UNCHANGED <<fundamentals_latest, tables, files>>

\* fetch_fundamentals.py: tickers whose fetch fails are skipped
FundamentalsMain ==
    \E skipped \in {{}, {"BBB"}} :
        /\ fundamentals_latest' =
               FetchFundamentalsFor(fundamentals_latest,
                   SelectSeq(TickerOrder, LAMBDA t : t \notin skipped))
        /\ UNCHANGED <<prices, tables, files>>

\* compute_weekly_stats.py, from the prices loaded
WeeklyStatsSave(stats) ==
    /\ weekly_stats' = save_weekly_stats(weekly_stats, stats)
    /\ last' = Ran("Weekly stats", TRUE, stats)

WeeklyStatsFor(frame) ==
    IF Len(frame) = 0
    THEN /\ last' = Ran("Weekly stats", FALSE, <<>>)
         /\ UNCHANGED weekly_stats
    ELSE WeeklyStatsSave(compute_last_week_stats(frame))

\* compute_weekly_stats.py: load_prices raises when there is no price
WeeklyStatsMain ==
    /\ WeeklyStatsFor(load_prices(prices))
    /\ UNCHANGED <<prices, fundamentals_latest, sector_sentiment,
                   sector_top_active, sector_dashboard_top10, files>>

SectorSentimentSave(sentiment) ==
    IF Len(sentiment) = 0
    THEN /\ last' = Ran("Sector sentiment", FALSE, sentiment)
         /\ UNCHANGED sector_sentiment
    ELSE /\ sector_sentiment' = save_sector_sentiment(sector_sentiment, sentiment)
         /\ last' = Ran("Sector sentiment", TRUE, sentiment)

\* compute_sector_sentiment.py: with no row to write, the INSERT has no
\* parameters and raises
SectorSentimentMain ==
    /\ SectorSentimentSave(compute_sector_sentiment(weekly_stats))
    /\ UNCHANGED <<prices, fundamentals_latest, weekly_stats,
                   sector_top_active, sector_dashboard_top10, files>>

TopActiveSave(top_active) ==
    IF Len(top_active) = 0
    THEN /\ last' = Ran("Top active", FALSE, top_active)
         /\ UNCHANGED sector_top_active
    ELSE /\ sector_top_active' = save_top_active(sector_top_active, top_active)
         /\ last' = Ran("Top active", TRUE, top_active)

\* rank_sector_top_active.py: with no row to write, the INSERT has no
\* parameters and raises
TopActiveMain ==
    /\ TopActiveSave(rank_top_active(weekly_stats, top_n, sort_ties))
    /\ UNCHANGED <<prices, fundamentals_latest, weekly_stats,
                   sector_sentiment, sector_dashboard_top10, files>>

\* build_sector_dashboard.py, from write_outputs on
\* the writes are made one after the other: the JSON file, the CSV file,
\* then the transaction on the table (none when flat is empty); the stage
\* ends at the write that fails
DashboardWrite(week_ending, sentiment, top_active, flat, nested) ==
    /\ out_json' = File(nested)
    /\ out_csv' = IF write_fault = "csv" THEN out_csv ELSE File(flat)
    /\ sector_dashboard_top10' =
           IF write_fault = "none"
           THEN upsert_sql_dashboard(sector_dashboard_top10, flat)
           ELSE sector_dashboard_top10
    /\ last' = [stage |-> "Dashboard (JSON/CSV)",
                ok |-> (write_fault = "none"
                           \/ (write_fault = "db" /\ Len(flat) = 0)),
                df |-> flat,
                week_ending |-> week_ending, sentiment |-> sentiment,
                top_active |-> top_active, nested |-> nested]

\* build_nested_json raises, before anything is written, on a
\* diagnostics_json that is not JSON
DashboardNested(week_ending, sentiment, top_active, flat) ==
    IF loads_raises(sentiment)
    THEN /\ last' = Ran("Dashboard (JSON/CSV)", FALSE, flat)
         /\ UNCHANGED <<sector_dashboard_top10, out_json, out_csv>>
    ELSE DashboardWrite(week_ending, sentiment, top_active, flat,
                        build_nested_json(sentiment, flat))

DashboardBuild(week_ending, sentiment, top_active) ==
    DashboardNested(week_ending, sentiment, top_active,
        build_flat_dashboard(sentiment, top_active,
            expand_fundamentals_json(fundamentals_latest),
            compute_7d_returns(prices, UniqueTickers(top_active), week_ending)))

\* build_sector_dashboard.py, from the week found: it raises, before
\* anything is written, when there is no sentiment row or no fundamentals
DashboardFor(week_ending) ==
    IF week_ending = 0 \/ Len(fundamentals_latest) = 0
    THEN /\ last' = Ran("Dashboard (JSON/CSV)", FALSE, <<>>)
         /\ UNCHANGED <<sector_dashboard_top10, out_json, out_csv>>
    ELSE DashboardBuild(week_ending,
                        load_sector_sentiment(sector_sentiment, week_ending),
                        load_sector_top_active(sector_top_active, week_ending))

\* build_sector_dashboard.py
DashboardMain ==
    /\ DashboardFor(load_latest_week_ending(sector_sentiment))
    /\ UNCHANGED <<prices, fundamentals_latest, weekly_stats,
                   sector_sentiment, sector_top_active, out_html>>

\* the page rendered from the data of reports/sector_dashboard.json
render_html(data) == <<[html |-> data]>>

\* build_sector_dashboard_html.py: renders reports/sector_dashboard.json
DashboardHtmlMain ==
    /\ last' = Ran("Dashboard (HTML)", out_json.exists, <<>>)
    /\ out_html' = IF out_json.exists THEN File(render_html(out_json.rows))
                   ELSE out_html
    /\ UNCHANGED <<prices, fundamentals_latest, tables, out_json, out_csv>>

Script(name) ==
    \/ name = "Universe" /\ UniverseMain
    \/ name = "Prices" /\ PricesMain
    \/ name = "Weekly stats" /\ WeeklyStatsMain
    \/ name = "Sector sentiment" /\ SectorSentimentMain
    \/ name = "Top active" /\ TopActiveMain
    \/ name = "Dashboard (JSON/CSV)" /\ DashboardMain
    \/ name = "Dashboard (HTML)" /\ DashboardHtmlMain
    \/ name = "Fundamentals" /\ FundamentalsMain /\ last' = Ran(name, TRUE, <<>>)

----------------------------------------------------------------------------
(* Actions *)

\* a new session closes
NextSession ==
    /\ pc = 0
    /\ today < MaxDay
    /\ today' = today + 1
    /\ UNCHANGED <<sort_ties, write_fault, bars, prices, fundamentals_latest,
                   tables, files, control, last, history, score_vars, docs, fetch_vars>>

\* run_pipeline.py --fundamentals-only
RunFundamentalsOnly ==
    /\ pc = 0
    /\ FundamentalsMain
    /\ last' = Ran("none", TRUE, <<>>)
    /\ settled' = (settled /\ fundamentals_latest' = fundamentals_latest)
    /\ UNCHANGED <<env, control, before, score_vars, docs, fetch_vars>>

\* The steps of STEPS are started, in the order of STEPS, docs/ left as it
\* is: the scripts run by hand, or run_pipeline's main() seen apart from the
\* publish_to_docs that the module calls before it (RunPipeline below is the
\* whole process).
StartPipeline ==
    /\ pc = 0
    /\ pc' = 1
    /\ continue_on_error' \in BOOLEAN
    /\ failed' = {}
    /\ before' = Snapshot(settled)
    /\ settled' = FALSE
    /\ UNCHANGED <<env, prices, fundamentals_latest, tables, files, last,
                   score_vars, docs, fetch_vars>>

Exiting == Len(STEPS) + 2

\* a main() that goes on to the next step whatever the flag
PipelineStepRegardless ==
    /\ pc \in 1..Len(STEPS)
    /\ Script(STEPS[pc])
    /\ failed' = IF last'.ok THEN failed ELSE failed \cup {pc}
    /\ pc' = pc + 1
    /\ before' = [before EXCEPT !.settled = @ /\ prices' = prices]
    /\ settled' = IF pc = 6 THEN ChainSteps \cap failed' = {} ELSE settled
    /\ UNCHANGED <<env, continue_on_error, score_vars, docs, fetch_vars>>

\* main(): the next step of STEPS; a failure ends the run unless
\* --continue-on-error was given
PipelineStep ==
    /\ pc \in 1..Len(STEPS)
    /\ Script(STEPS[pc])
    /\ IF last'.ok
       THEN /\ pc' = pc + 1
            /\ failed' = failed
       ELSE /\ failed' = failed \cup {pc}
            /\ pc' = IF continue_on_error THEN pc + 1 ELSE Exiting
    /\ before' = [before EXCEPT !.settled = @ /\ prices' = prices]
    /\ settled' = IF pc = 6 THEN ChainSteps \cap failed' = {} ELSE settled
    /\ UNCHANGED <<env, continue_on_error, score_vars, docs, fetch_vars>>

\* main(): after the steps, the fundamentals step under --with-fundamentals
PipelineFundamentals ==
    /\ pc = Len(STEPS) + 1
    /\ \/ Script("Fundamentals")
       \/ UNCHANGED <<prices, fundamentals_latest, tables, files, last>>
    /\ pc' = Exiting
    /\ settled' = (settled /\ fundamentals_latest' = fundamentals_latest)
    /\ UNCHANGED <<env, continue_on_error, failed, before, score_vars, docs, fetch_vars>>

\* the process exits
PipelineExit ==
    /\ pc = Exiting
    /\ pc' = 0
    /\ continue_on_error' = FALSE
    /\ failed' = {}
    /\ last' = Ran("none", TRUE, <<>>)
    /\ before' = NoSnapshot
    /\ UNCHANGED <<env, prices, fundamentals_latest, tables, files, settled,
                   score_vars, docs, fetch_vars>>

Next ==
    \/ NextSession
    \/ RunFundamentalsOnly
    \/ StartPipeline
    \/ PipelineStep
    \/ PipelineFundamentals
    \/ PipelineExit

Spec == Init /\ [][Next]_vars

----------------------------------------------------------------------------
(* run_pipeline.py as a process: the module calls publish_to_docs when it is
   loaded, then main() *)

ReportsComplete == out_html.exists /\ out_json.exists /\ out_csv.exists

\* docs/ after publish_to_docs: copy2 of the three reports in turn, then
\* .nojekyll; the first report missing raises after the copies before it
publish_to_docs(d) ==
    IF ~out_html.exists THEN d
    ELSE IF ~out_json.exists THEN [d EXCEPT !.index_html = out_html]
    ELSE IF ~out_csv.exists
    THEN [d EXCEPT !.index_html = out_html, !.sector_dashboard_json = out_json]
    ELSE [index_html |-> out_html, sector_dashboard_json |-> out_json,
          sector_dashboard_top10_csv |-> out_csv, nojekyll |-> TRUE]

\* python src/run_pipeline.py: publish_to_docs, then main() starts the
\* steps; the process dies in publish_to_docs when a report is missing
RunPipeline ==
    /\ pc = 0
    /\ docs' = publish_to_docs(docs)
    /\ IF ReportsComplete
       THEN /\ pc' = 1
            /\ continue_on_error' \in BOOLEAN
            /\ failed' = {}
            /\ before' = Snapshot(settled)
            /\ settled' = FALSE
       ELSE UNCHANGED <<control, history>>
    /\ UNCHANGED <<env, prices, fundamentals_latest, tables, files, last,
                   score_vars, fetch_vars>>

\* python src/run_pipeline.py --fundamentals-only
RunPipelineFundamentalsOnly ==
    /\ pc = 0
    /\ ReportsComplete
    /\ docs' = publish_to_docs(docs)
    /\ FundamentalsMain
    /\ last' = Ran("none", TRUE, <<>>)
    /\ settled' = (settled /\ fundamentals_latest' = fundamentals_latest)
    /\ UNCHANGED <<env, control, before, score_vars, fetch_vars>>

NextPublish ==
    \/ Next
    \/ RunPipeline
    \/ RunPipelineFundamentalsOnly

SpecPublish == Init /\ [][NextPublish]_vars

----------------------------------------------------------------------------
(* fetch_and_store_prices attempt by attempt: a download that raises is
   tried again until max_retries attempts were made; a download that returns,
   with bars or with none, is upserted and ends the attempts on its chunk. *)

\* FetchPricesConfig.max_retries
max_retries == 4

\* chunk_list(tickers, cfg.chunk_size), in order
chunks ==
    [k \in 1..Cardinality(chunk_list) |->
        CHOOSE c \in chunk_list : TickerOrder[(k - 1) * ChunkSize + 1] \in c]

Tried(ok) == [chunk |-> chunk_idx, attempt |-> attempt + 1, ok |-> ok]

\* fetch_and_store_prices is called: the loop is at its first chunk
FetchStart ==
    /\ chunk_idx = 0
    /\ chunk_idx' = 1
    /\ attempt' = 0
    /\ tried' = <<>>
    /\ UNCHANGED <<env, prices, fundamentals_latest, tables, files, control,
                   last, history, score_vars, docs>>

\* an attempt whose download returns: its rows, if any, are upserted in one
\* transaction, and the loop goes to the next chunk
AttemptUpserts ==
    /\ chunk_idx \in 1..Len(chunks)
    /\ \E empty \in BOOLEAN :
          prices' = [t \in Tickers |->
                       IF t \in chunks[chunk_idx] /\ ~empty
                       THEN prices[t] \cup (ListDay[t]..today)
                       ELSE prices[t]]
    /\ tried' = Append(tried, Tried(TRUE))
    /\ chunk_idx' = chunk_idx + 1
    /\ attempt' = 0
    /\ UNCHANGED <<env, fundamentals_latest, tables, files, control, last,
                   history, score_vars, docs>>

\* an attempt that raises, the chunk given up one attempt later
AttemptRaisesOnceMore ==
    /\ chunk_idx \in 1..Len(chunks)
    /\ tried' = Append(tried, Tried(FALSE))
    /\ IF attempt + 1 > max_retries
       THEN /\ chunk_idx' = chunk_idx + 1
            /\ attempt' = 0
       ELSE /\ chunk_idx' = chunk_idx
            /\ attempt' = attempt + 1
    /\ UNCHANGED <<env, prices, fundamentals_latest, tables, files, control,
                   last, history, score_vars, docs>>

\* an attempt that raises: the chunk is given up once max_retries attempts
\* were made, else tried again after the backoff
AttemptRaises ==
    /\ chunk_idx \in 1..Len(chunks)
    /\ tried' = Append(tried, Tried(FALSE))
    /\ IF attempt + 1 >= max_retries
       THEN /\ chunk_idx' = chunk_idx + 1
            /\ attempt' = 0
       ELSE /\ chunk_idx' = chunk_idx
            /\ attempt' = attempt + 1
    /\ UNCHANGED <<env, prices, fundamentals_latest, tables, files, control,
                   last, history, score_vars, docs>>

\* after the last chunk the function returns
FetchReturn ==
    /\ chunk_idx = Len(chunks) + 1
    /\ chunk_idx' = 0
    /\ UNCHANGED <<env, prices, fundamentals_latest, tables, files, control,
                   last, history, score_vars, docs, attempt, tried>>

Attempt == AttemptUpserts \/ AttemptRaises

NextFetch ==
    \/ NextSession
    \/ FetchStart
    \/ Attempt
    \/ FetchReturn

\* a call in progress goes on: a download returns or raises, and the sleeps
\* end
SpecFetch ==
    /\ Init
    /\ [][NextFetch]_vars
    /\ WF_vars(Attempt)
    /\ WF_vars(FetchReturn)

----------------------------------------------------------------------------
(* compute_sector_sentiment on the rows of one sector, for any statistics:
   the rows of weekly_stats are gathered one by one, each with one of the
   (weekly_return, vol_ratio) pairs of RowKinds, and scored. *)

\* the largest group gathered
MaxGroup == 5

RowKinds ==
    {<<Rat(1, 50), Rat(6, 5)>>, <<Rat(1, 10), RInt(2)>>,
     <<RInt(0), RInt(2)>>, <<RInt(0), Rat(7, 6)>>,
     <<Rat(-1, 50), Rat(1, 2)>>, <<Null, Null>>}

FinTickers == SelectSeq(TickerOrder, LAMBDA t : universe[t] = "Fin")

\* the i-th row gathered: the tickers of the sector in turn, week after week
GatheredRow(i, kind) ==
    [ticker |-> FinTickers[((i - 1) % Len(FinTickers)) + 1],
     week_ending |-> FirstDay + ((i - 1) \div Len(FinTickers)),
     weekly_return |-> kind[1],
     dollar_vol_week |-> 100,
     week_volume |-> 5,
     vol_ratio |-> kind[2]]

InitScore ==
    /\ today = FirstDay
    /\ sort_ties = "kept"
    /\ write_fault = "none"
    /\ bars = <<>>
    /\ InitStores
    /\ g = <<>>
    /\ scored = <<>>

GatherRow ==
    /\ Len(g) < MaxGroup
    /\ \E kind \in RowKinds : g' = Append(g, GatheredRow(Len(g) + 1, kind))
    /\ scored' = <<>>
    /\ UNCHANGED <<env, prices, fundamentals_latest, tables, files, control,
                   last, history, docs, fetch_vars>>

ScoreGroup ==
    /\ Len(g) > 0
    /\ scored' = compute_sector_sentiment(g)
    /\ UNCHANGED <<env, prices, fundamentals_latest, tables, files, control,
                   last, history, g, docs, fetch_vars>>

NextScore == GatherRow \/ ScoreGroup

SpecScore == InitScore /\ [][NextScore]_vars

----------------------------------------------------------------------------
(* The last lines of the scorer in float64, for the raw scores next to the
   threshold. raw is a float64; the float64 of absolute value between 1/32
   and 1/16 are 2^-57 apart, and the literal 0.05 is the float64
   7205759403792794 * 2^-57 = 0.05 + (2/5) * 2^-57. A raw score is given by
   its sign and by its distance in such steps from the literal:
   abs(raw) = float64(0.05) + ulps * 2^-57. *)

\* the farthest raw score from the literal, in steps of 2^-57
MaxUlps == 30

\* n / d rounded to the nearest integer, a tie to the even one (d > 0)
RoundHalfEven(n, d) ==
    IF 2 * (n % d) < d THEN n \div d
    ELSE IF 2 * (n % d) > d THEN (n \div d) + 1
    ELSE IF (n \div d) % 2 = 0 THEN n \div d
    ELSE (n \div d) + 1

\* abs(raw) * 100: the exact product is 5 + (100 * ulps + 40) * 2^-57; the
\* float64 between 4 and 8 are 2^-50 = 128 * 2^-57 apart and 5 is an even
\* one. The value is the product's distance from 5 in steps of 2^-50.
TimesHundred(ulps) == RoundHalfEven(100 * ulps + 40, 128)

\* int(min(100, abs(raw) * 100)) of a product between 4 and 6
StrengthOfDouble(ulps) == IF TimesHundred(ulps) >= 0 THEN 5 ELSE 4

\* abs(raw) < 0.05 compares two float64
DirectionOfDouble(sign, ulps) ==
    IF ulps < 0 THEN "Neutral"
    ELSE IF sign > 0 THEN "Bullish"
    ELSE "Bearish"

ScoreDouble ==
    /\ \E sign \in {-1, 1}, ulps \in (0 - MaxUlps)..MaxUlps :
          scored' = <<[raw |-> [sign |-> sign, ulps |-> ulps],
                       direction |-> DirectionOfDouble(sign, ulps),
                       strength |-> StrengthOfDouble(ulps)]>>
    /\ UNCHANGED <<env, prices, fundamentals_latest, tables, files, control,
                   last, history, g, docs, fetch_vars>>

SpecDouble == InitScore /\ [][ScoreDouble]_vars

----------------------------------------------------------------------------
(* compute_weekly_stats.py on the bars of two tickers, for any history: the
   bars of AAA are served week by week while nothing happens (every close
   10, every volume the same) and then one by one, each of one of BarKinds;
   BBB was listed ShortListing sessions ago and has AAA's bars since.  The
   stage then runs once on the table. *)

\* the quiet weeks served
MaxWeeks == 9

\* the bars served one by one
MaxTail == 5

\* the sessions since BBB was listed
ShortListing == 4

\* (close, volume) of a bar served by itself
BarKinds == {<<10, 100>>, <<11, 100>>, <<0, 300>>, <<NoClose, 100>>}

\* the volume of every session of a quiet week
QuietVolumes == {0, 100}

Bar(close, volume) == [close |-> close, volume |-> volume]

\* the sessions of bs served as quiet weeks
QuietLen(bs) ==
    week_sessions *
        MaxOf({k \in 0..(Len(bs) \div week_sessions) :
                  \A i \in 1..(k * week_sessions) :
                      bs[i].close = 10 /\ bs[i].volume = bs[1].volume})

\* the rows of table prices for ticker t, listed at session from
PriceRowsOf(t, from) ==
    [k \in 1..(Len(bars) - from + 1) |->
        [ticker |-> t, date |-> from + k - 1,
         close |-> bars[from + k - 1].close,
         volume |-> bars[from + k - 1].volume]] \o <<>>

\* table prices, by ticker and date
PriceRows ==
    PriceRowsOf("AAA", 1)
        \o PriceRowsOf("BBB", Len(bars) - Min(Len(bars), ShortListing) + 1)

ServeQuietWeek ==
    /\ last.stage = "none"
    /\ Len(bars) < MaxWeeks * week_sessions
    /\ QuietLen(bars) = Len(bars)
    /\ \E v \in QuietVolumes :
          /\ Len(bars) > 0 => bars[1].volume = v
          /\ bars' = bars \o [k \in 1..week_sessions |-> Bar(10, v)]
    /\ UNCHANGED <<today, sort_ties, write_fault, prices, fundamentals_latest,
                   tables, files, control, last, history, score_vars, docs, fetch_vars>>

ServeBar ==
    /\ last.stage = "none"
    /\ Len(bars) - QuietLen(bars) < MaxTail
    /\ Len(bars) < MaxWeeks * week_sessions + MaxTail
    /\ \E kind \in BarKinds : bars' = Append(bars, Bar(kind[1], kind[2]))
    /\ UNCHANGED <<today, sort_ties, write_fault, prices, fundamentals_latest,
                   tables, files, control, last, history, score_vars, docs, fetch_vars>>

\* compute_weekly_stats.py on the table
WeeklyStatsOnBars ==
    /\ last.stage = "none"
    /\ WeeklyStatsFor(select_prices(PriceRows))
    /\ UNCHANGED <<env, prices, fundamentals_latest, sector_sentiment,
                   sector_top_active, sector_dashboard_top10, files,
                   control, history, score_vars, docs, fetch_vars>>

NextWeekly == ServeQuietWeek \/ ServeBar \/ WeeklyStatsOnBars

\* from the empty stores of InitScore
SpecWeekly == InitScore /\ [][NextWeekly]_vars

----------------------------------------------------------------------------
(* build_sector_dashboard.py on any stores: the tables are found as this
   program, an earlier version of it or another writer of the database may
   have left them, with sentiment rows whose diagnostics_json is JSON, other
   text or NULL, with top-active rows for some sectors, and with fundamentals
   records that are missing, JSON or other text; the rows of a table are in
   either order.  The stage runs once, and
   one of its writes may fail. *)

\* the row of table sector_sentiment for a sector, if any
StoredSentiment(sector, raw, kind) ==
    IF kind = "none" THEN <<>>
    ELSE <<[ScoredRow(sector, FirstDay, MinSectorRows, Rat(4, 5), Rat(1, 50),
                      Rat(6, 5), raw)
               EXCEPT !.diagnostics_json =
                   CASE kind = "json" -> @
                     [] kind = "text" -> NotJson
                     [] OTHER -> NullJson]>>

\* the rows of table sector_top_active for a sector, of the tickers ts
StoredTopActive(sector, ts) ==
    RankRows([i \in 1..Len(ts) |->
        [sector |-> sector, week_ending |-> FirstDay, ticker |-> ts[i],
         dollar_vol_week |-> 100 * (Len(TickerOrder) - TickerIdx(ts[i])),
         weekly_return |-> Rat(1, 50), vol_ratio |-> Null]])

\* the row of table fundamentals_latest for a ticker, if any
StoredFundamentals(t, kind) ==
    IF kind = "none" THEN <<>>
    ELSE <<[ticker |-> t,
            normalized_json |-> IF kind = "json" THEN JsonDumps(t) ELSE "{"]>>

InitDash ==
    /\ today = FirstDay
    /\ sort_ties = "kept"
    /\ write_fault \in {"none", "csv", "db"}
    /\ bars = <<>>
    /\ prices = [t \in Tickers |-> ListDay[t]..FirstDay]
    /\ weekly_stats = <<>>
    /\ \E fin, tech \in {"none", "json", "text", "null"} :
          \E raw \in {Rat(1, 10), Rat(89, 150), RInt(1)} :
              /\ tech = "none" => raw = Rat(1, 10)
              /\ sector_sentiment
                     \in {StoredSentiment("Fin", Rat(89, 150), fin)
                              \o StoredSentiment("Tech", raw, tech),
                          StoredSentiment("Tech", raw, tech)
                              \o StoredSentiment("Fin", Rat(89, 150), fin)}
    /\ \E n \in 0..2, m \in 0..1 :
          sector_top_active
              \in {StoredTopActive("Fin", HeadN(<<"AAA", "BBB">>, n))
                       \o StoredTopActive("Tech", HeadN(<<"CCC">>, m)),
                   Reverse(StoredTopActive("Fin", HeadN(<<"AAA", "BBB">>, n))
                       \o StoredTopActive("Tech", HeadN(<<"CCC">>, m)))}
    /\ \E a, b, c \in {"none", "json", "text"} :
          fundamentals_latest = StoredFundamentals("AAA", a)
                                    \o StoredFundamentals("BBB", b)
                                    \o StoredFundamentals("CCC", c)
    /\ sector_dashboard_top10 = <<>>
    /\ out_json = NoFile
    /\ out_csv = NoFile
    /\ out_html = NoFile
    /\ docs = NoDocs
    /\ chunk_idx = 0
    /\ attempt = 0
    /\ tried = <<>>
    /\ pc = 0
    /\ continue_on_error = FALSE
    /\ failed = {}
    /\ last = Ran("none", TRUE, <<>>)
    /\ settled = FALSE
    /\ before = NoSnapshot
    /\ g = <<>>
    /\ scored = <<>>

\* build_sector_dashboard.py on the stores
DashboardOnStores ==
    /\ last.stage = "none"
    /\ DashboardMain
    /\ UNCHANGED <<env, control, history, score_vars, docs, fetch_vars>>

SpecDash == InitDash /\ [][DashboardOnStores]_vars

----------------------------------------------------------------------------
(* Properties of the dashboard stage *)

DashboardRan == last.stage = "Dashboard (JSON/CSV)" /\ last.ok

\* the rows of sector_top_active stored for the week the dashboard is built for
TopActiveOfWeek ==
    {i \in 1..Len(sector_top_active) :
        sector_top_active[i].week_ending = last.week_ending}

RowKey(r) == <<r.sector, r.week_ending, r.rank, r.ticker>>

\* C1: the flat frame built by build_flat_dashboard has one row for each row
\* of sector_top_active of the week, no more and no fewer: the three left
\* joins drop no ranked row and duplicate none.
FlatRowsAreTopActiveRows ==
    DashboardRan =>
        /\ Len(last.df) = Cardinality(TopActiveOfWeek)
        /\ \A i \in TopActiveOfWeek :
              Cardinality({j \in 1..Len(last.df) :
                  RowKey(last.df[j]) = RowKey(sector_top_active[i])}) = 1

\* a dashboard whose ranked rows include one with no sentiment row, one with
\* no fundamentals and one with fundamentals
FlatRowsWitness ==
    /\ DashboardRan
    /\ Len(last.df) >= 6
    /\ \E j \in 1..Len(last.df) : last.df[j].direction = NullStr
    /\ \E j \in 1..Len(last.df) :
          last.df[j].ticker = "BBB" /\ IsNull(last.df[j].marketCap)
    /\ \E j \in 1..Len(last.df) : ~IsNull(last.df[j].marketCap)

\* the number of top10_active entries over all sector objects
RECURSIVE LeafCount(_)
LeafCount(blocks) ==
    IF Len(blocks) = 0 THEN 0
    ELSE Len(Head(blocks).top10_active) + LeafCount(Tail(blocks))

\* C2: the nested view has as many leaves as the flat frame has rows and as
\* there are rows of sector_top_active for the week, also when a sector has
\* ranked tickers and no sentiment row.
NestedLeavesAreFlatRows ==
    DashboardRan =>
        /\ LeafCount(last.nested) = Len(last.df)
        /\ LeafCount(last.nested) = Cardinality(TopActiveOfWeek)

\* C3: every row of sector_sentiment is backed by at least five rows of
\* weekly_stats of the same week_ending whose tickers belong to its sector.
SentimentBackedByFiveRows ==
    \A i \in 1..Len(sector_sentiment) :
        Cardinality({j \in 1..Len(weekly_stats) :
            /\ weekly_stats[j].week_ending = sector_sentiment[i].week_ending
            /\ universe[weekly_stats[j].ticker] = sector_sentiment[i].sector})
          >= MinSectorRows

Rows(table) == {table[i] : i \in 1..Len(table)}

\* C4: after a run of a derived-table stage the stored table holds exactly
\* the rows that run computed: nothing of an earlier run or week remains.
DerivedTablesReplacedWholesale ==
    /\ (last.stage = "Weekly stats" /\ last.ok) =>
           Rows(weekly_stats) = Rows(last.df)
    /\ (last.stage = "Sector sentiment" /\ last.ok) =>
           Rows(sector_sentiment) = Rows(last.df)
    /\ (last.stage = "Top active" /\ last.ok) =>
           Rows(sector_top_active) = Rows(last.df)

\* C5: after the dashboard stage the table sector_dashboard_top10 holds
\* exactly the flat rows of that run, an empty flat frame included.
DashboardTableIsThisRun ==
    DashboardRan =>
        Rows(sector_dashboard_top10) = {DashRecord(r) : r \in Rows(last.df)}

----------------------------------------------------------------------------
(* Properties of the chain run again, and of the ranking *)

\* the dashboard step of an invocation has just ended, every step of the
\* chain succeeded, and the invocation found the stores as a whole chain had
\* left them, with the prices and fundamentals that chain had read
ChainRanTwice == pc = 7 /\ settled /\ before.settled

\* C6: the chain run again on unchanged prices, sector membership and
\* fundamentals leaves the stored derived tables, the flat output and the
\* nested output as the run before left them.
ChainIdempotent ==
    ChainRanTwice => (tables = before.tables /\ files = before.files)

\* a second run over several weeks of stored rows, with a dashboard to write
ChainTwiceWitness ==
    /\ ChainRanTwice
    /\ Len(weekly_stats) > Len(TickerOrder)
    /\ Len(sector_dashboard_top10) >= 6
    /\ Len(out_json.rows) >= 1

TopActiveRan == last.stage = "Top active"

\* the rows of weekly_stats that join a ticker of sector s, in frame order
JoinedRows(s) == SelectSeq(weekly_stats, LAMBDA r : universe[r.ticker] = s)

\* the rows of the ranking's output for sector s, in output order
RankedRows(s) == SelectSeq(last.df, LAMBDA r : r.sector = s)

RanksOfSector(out, k) ==
    /\ Len(out) = k
    /\ \A i \in 1..Len(out) :
          /\ out[i].rank = i
          /\ out[i].week_ending = out[1].week_ending
          /\ i > 1 => out[i - 1].dollar_vol_week >= out[i].dollar_vol_week

\* C7: in the output of rank_top_active the ranks of each (sector,
\* week_ending) are 1..k without gap or repeat, k being the smaller of top_n
\* and the number of the sector's joined rows, and dollar_vol_week does not
\* grow as the rank grows.
RanksContiguousDescending ==
    TopActiveRan =>
        \A s \in Sectors :
            RanksOfSector(RankedRows(s), Min(top_n, Len(JoinedRows(s))))

\* a ranking with a sector cut at top_n and a sector with fewer rows
RanksWitness ==
    /\ TopActiveRan
    /\ Len(JoinedRows("Fin")) > top_n
    /\ Len(RankedRows("Fin")) = top_n
    /\ Len(RankedRows("Tech")) \in 1..(top_n - 1)

\* the place a stable descending sort gives the p-th row of the group gr
StablePlace(gr, p) ==
    1 + Cardinality({q \in 1..Len(gr) :
                        \/ gr[q].dollar_vol_week > gr[p].dollar_vol_week
                        \/ /\ gr[q].dollar_vol_week = gr[p].dollar_vol_week
                           /\ q < p})

StableRanks(gr, out) ==
    \A p \in 1..Len(gr) :
        StablePlace(gr, p) <= top_n =>
            /\ StablePlace(gr, p) <= Len(out)
            /\ out[StablePlace(gr, p)].ticker = gr[p].ticker

\* C8: the sort of the ranking is stable: of two rows of a sector with equal
\* dollar_vol_week the one that comes first in the frame before the sort
\* gets the smaller rank, and is the one kept at the cut at top_n.
TopActiveSortStable ==
    TopActiveRan => \A s \in Sectors : StableRanks(JoinedRows(s), RankedRows(s))

----------------------------------------------------------------------------
(* Properties of the score *)

\* the non-null values of the columns of g
Returns ==
    SelectSeq([i \in 1..Len(g) |-> g[i].weekly_return] \o <<>>,
              LAMBDA x : ~IsNull(x))

VolRatios ==
    SelectSeq([i \in 1..Len(g) |-> g[i].vol_ratio] \o <<>>,
              LAMBDA x : ~IsNull(x))

\* the k-th smallest of the values v
KthSmallest(v, k) ==
    CHOOSE x \in {v[i] : i \in 1..Len(v)} :
        /\ Cardinality({i \in 1..Len(v) : RLt(v[i], x)}) < k
        /\ k <= Cardinality({i \in 1..Len(v) : RLe(v[i], x)})

MedianOf(v) ==
    IF Len(v) % 2 = 1 THEN KthSmallest(v, (Len(v) + 1) \div 2)
    ELSE RDiv(RAdd(KthSmallest(v, Len(v) \div 2),
                   KthSmallest(v, Len(v) \div 2 + 1)), RInt(2))

ClampToUnit(x) ==
    IF RLt(x, RInt(-1)) THEN RInt(-1) ELSE IF RLt(RInt(1), x) THEN RInt(1) ELSE x

PositiveFraction ==
    Rat(Cardinality({i \in 1..Len(g) :
            ~IsNull(g[i].weekly_return) /\ g[i].weekly_return[1] > 0}), Len(g))

ExpectedRawScore(returns, vol_ratios) ==
    RAdd(RAdd(RMul(Rat(1, 2), RMul(RSub(PositiveFraction, Rat(1, 2)), RInt(2))),
              RMul(Rat(35, 100), ClampToUnit(RDiv(MedianOf(returns), Rat(3, 100))))),
         RMul(Rat(15, 100),
              ClampToUnit(RDiv(RSub(MedianOf(vol_ratios), RInt(1)), Rat(1, 2)))))

HasMedians ==
    /\ Len(Returns) > 0
    /\ Len(VolRatios) > 0

\* C9: the raw_score of a retained group is 0.50*breadth_signal +
\* 0.35*return_signal + 0.15*volume_signal, the signals being (fraction of
\* rows with weekly_return > 0, minus 0.5) * 2, the median of the non-null
\* weekly_return over 0.03 clamped to [-1, 1], and the median of the non-null
\* vol_ratio minus 1 over 0.5 clamped to [-1, 1].
RawScoreIsWeightedSignals ==
    \A i \in 1..Len(scored) :
        HasMedians =>
            scored[i].raw_score =
                ExpectedRawScore(Returns, VolRatios)

\* Scenario B: five rows, breadth 0.8, median return 0.02, median vol_ratio
\* 1.2, raw_score 0.5933...
ScenarioBWitness ==
    /\ Len(g) = 5
    /\ Len(scored) = 1
    /\ scored[1].diagnostics_json.breadth = Rat(4, 5)
    /\ scored[1].diagnostics_json.median_return = Rat(1, 50)
    /\ scored[1].diagnostics_json.median_vol_ratio = Rat(6, 5)
    /\ scored[1].raw_score = Rat(89, 150)

\* C10: direction is Neutral when |raw_score| < 0.05, otherwise Bullish
\* when raw_score > 0 and Bearish when raw_score < 0; raw_score = 0.05 is
\* Bullish and raw_score = -0.05 is Bearish.
DirectionOfRawScore ==
    \A i \in 1..Len(scored) :
        scored[i].direction =
            IF 20 * Abs(scored[i].raw_score[1]) < scored[i].raw_score[2]
            THEN "Neutral"
            ELSE IF scored[i].raw_score[1] > 0 THEN "Bullish" ELSE "Bearish"

\* a group scored exactly 0.05
DirectionBoundaryWitness ==
    /\ Len(scored) = 1
    /\ scored[1].raw_score = Rat(1, 20)
    /\ scored[1].direction = "Bullish"

\* the raw scores strength is compared on, up to beyond 1 on both sides
ReferenceScores == {Rat(k, 40) : k \in (-48)..48}

----------------------------------------------------------------------------
(* Properties of the weekly statistics *)

WeeklyStatsRan == last.stage = "Weekly stats"

\* the sessions of ticker t that rows, the rows of table prices, hold a
\* known close for
KnownSessions(rows, t) ==
    {rows[i].date :
        i \in {j \in 1..Len(rows) : rows[j].ticker = t /\ rows[j].close # NoClose}}

\* the n most recent sessions of S
Recent(S, n) == {d \in S : Cardinality({e \in S : e > d}) < n}

Earliest(S) == CHOOSE d \in S : \A e \in S : d <= e

Latest(S) == CHOOSE d \in S : \A e \in S : e <= d

RECURSIVE VolumeOver(_)
VolumeOver(S) ==
    IF S = {} THEN 0
    ELSE bars[Latest(S)].volume + VolumeOver(S \ {Latest(S)})

RECURSIVE DollarVolumeOver(_)
DollarVolumeOver(S) ==
    IF S = {} THEN 0
    ELSE bars[Latest(S)].close * bars[Latest(S)].volume
             + DollarVolumeOver(S \ {Latest(S)})

StatsOf(t) == SelectSeq(last.df, LAMBDA r : r.ticker = t)

\* the tickers of the table
Stored(rows) == {rows[i].ticker : i \in 1..Len(rows)}

OneRowFromFiveCloses(known, rows) ==
    IF Cardinality(known) >= 5
    THEN Len(rows) = 1 /\ rows[1].week_ending = Latest(known)
    ELSE Len(rows) = 0

OneRowPerTickerIn(rows) ==
    /\ last.ok <=> \E t \in Stored(rows) : KnownSessions(rows, t) # {}
    /\ last.ok => \A t \in Tickers :
          OneRowFromFiveCloses(KnownSessions(rows, t), StatsOf(t))

\* C12: compute_last_week_stats emits exactly one row for every ticker with
\* at least 5 known closes, its week_ending the date of the most recent
\* known close, and no row, without raising, for a ticker with fewer.
OneRowPerTickerOfFiveCloses ==
    WeeklyStatsRan => OneRowPerTickerIn(PriceRows)

FiveKnownCloses(known_a, known_b) ==
    /\ Cardinality(known_a) = 5
    /\ bars[Len(bars)].close = NoClose
    /\ Len(StatsOf("AAA")) = 1
    /\ StatsOf("AAA")[1].week_ending = Len(bars) - 1
    /\ known_b # {}
    /\ Len(StatsOf("BBB")) = 0
    /\ Len(weekly_stats) = 1

\* AAA has exactly 5 known closes, the latest bar served having none, and
\* gets its row; BBB has known closes, fewer than 5, and gets none
FiveKnownClosesWitness ==
    /\ WeeklyStatsRan /\ last.ok
    /\ FiveKnownCloses(KnownSessions(PriceRows, "AAA"),
                       KnownSessions(PriceRows, "BBB"))

ReturnOverWeek(row, first_close, last_close) ==
    IF first_close = 0
    THEN IsNull(row.weekly_return)
    ELSE /\ ~IsNull(row.weekly_return)
         /\ row.weekly_return[1] * first_close
               = (last_close - first_close) * row.weekly_return[2]

ReturnOverKnown(known, rows) ==
    Cardinality(known) >= 5 =>
        /\ Len(rows) = 1
        /\ ReturnOverWeek(rows[1], bars[Earliest(Recent(known, 5))].close,
                          bars[Latest(known)].close)

ReturnsIn(rows) ==
    \A t \in Stored(rows) : ReturnOverKnown(KnownSessions(rows, t), StatsOf(t))

\* C13: weekly_return = last_close / first_close - 1 over the ticker's last
\* 5 sessions, and null, the row still emitted, when first_close = 0.
WeeklyReturnOverLastFive ==
    (WeeklyStatsRan /\ last.ok) => ReturnsIn(PriceRows)

ZeroFirstClose(known, rows) ==
    /\ Len(rows) = 1
    /\ bars[Earliest(Recent(known, 5))].close = 0
    /\ bars[Latest(known)].close = 11
    /\ IsNull(rows[1].weekly_return)
    /\ rows[1].dollar_vol_week > 0

\* the week of AAA opens on a close of 0 and ends on 11: the row is there,
\* its weekly_return null
ZeroFirstCloseWitness ==
    /\ WeeklyStatsRan /\ last.ok
    /\ ZeroFirstClose(KnownSessions(PriceRows, "AAA"), StatsOf("AAA"))

SumsOverWeek(row, week) ==
    /\ row.dollar_vol_week = DollarVolumeOver(week)
    /\ row.week_volume = VolumeOver(week)

SumsIn(rows) ==
    \A i \in 1..Len(last.df) :
        SumsOverWeek(last.df[i],
                     Recent(KnownSessions(rows, last.df[i].ticker), 5))

\* C14: dollar_vol_week is the sum of close * volume and week_volume the sum
\* of volume over exactly the ticker's last 5 sessions.
WeekSumsOverLastFive ==
    (WeeklyStatsRan /\ last.ok) => SumsIn(PriceRows)

\* Scenario A: closes 10, 10, 10, 10, 10, 11 with volumes all 100
ScenarioAWitness ==
    /\ WeeklyStatsRan /\ last.ok
    /\ bars = [k \in 1..6 |-> Bar(IF k = 6 THEN 11 ELSE 10, 100)]
    /\ Len(StatsOf("AAA")) = 1
    /\ StatsOf("AAA")[1].week_ending = 6
    /\ StatsOf("AAA")[1].weekly_return = Rat(1, 10)
    /\ StatsOf("AAA")[1].dollar_vol_week = 5100
    /\ StatsOf("AAA")[1].week_volume = 500
    /\ IsNull(StatsOf("AAA")[1].vol_ratio)

RatioOverBaseline(row, sessions, B) ==
    IF sessions < 45 \/ B = 0
    THEN IsNull(row.vol_ratio)
    ELSE /\ ~IsNull(row.vol_ratio)
         /\ row.vol_ratio[1] * B = 8 * row.week_volume * row.vol_ratio[2]

RatioOverKnown(row, known) ==
    RatioOverBaseline(row, Cardinality(known),
                      VolumeOver(Recent(known, 45) \ Recent(known, 5)))

RatiosIn(rows) ==
    \A i \in 1..Len(last.df) :
        RatioOverKnown(last.df[i], KnownSessions(rows, last.df[i].ticker))

\* C15: vol_ratio is null under 45 sessions; from 45 sessions on it is
\* week_volume / (B / 8), B the total volume of the 40 sessions just before
\* the week, and null, the row still emitted, when B = 0.
VolRatioOverBaseline ==
    (WeeklyStatsRan /\ last.ok) => RatiosIn(PriceRows)

\* AAA has exactly 45 sessions and a week that trades 9/5 of its baseline's
\* weekly volume
FortyFiveSessionsWitness ==
    /\ WeeklyStatsRan /\ last.ok
    /\ Len(bars) = 45
    /\ Len(select_prices(PriceRowsOf("AAA", 1))) = 45
    /\ Len(StatsOf("AAA")) = 1
    /\ StatsOf("AAA")[1].week_volume = 900
    /\ StatsOf("AAA")[1].vol_ratio = Rat(9, 5)

----------------------------------------------------------------------------
(* Properties of failures *)

\* the latest week_ending of weekly_stats: the week the weekly-stats stage
\* has just computed
ComputedWeek == MaxOf({weekly_stats[i].week_ending : i \in 1..Len(weekly_stats)})

\* C16: with no known close in the price store the weekly-stats stage fails
\* and writes nothing, and the dashboard stage of a run is built for the
\* week just computed or not at all, never from the sentiment rows of an
\* earlier week that are still stored.
MissingInputIsFatal ==
    /\ (WeeklyStatsRan /\ pc > 0 /\ \A t \in Tickers : prices[t] = {})
           => (~last.ok /\ weekly_stats = before.tables[1])
    /\ (DashboardRan /\ pc > 0)
           => last.week_ending = ComputedWeek

\* C17: a stage that fails persists none of its output: after a failed
\* dashboard stage the JSON file, the CSV file and the dashboard table are
\* all as they were found (here: absent and empty).
FailedStageWritesNothing ==
    (last.stage = "Dashboard (JSON/CSV)" /\ ~last.ok) =>
        /\ out_json = NoFile
        /\ out_csv = NoFile
        /\ sector_dashboard_top10 = <<>>

\* the stage STEPS[k] has just run, after the stages before it in STEPS
RanInOrder(k) ==
    /\ pc > 0
    /\ last.stage = STEPS[k]

\* the stages of the chain before STEPS[k] that failed in this invocation
FailedBefore(k) == failed \cap {j \in ChainSteps : j < k}

\* C18 (as stated): the stages run one at a time in the order of STEPS, and
\* a stage never runs after a stage before it failed in the same invocation.
StagesRunAfterSuccess ==
    \A k \in ChainSteps :
        RanInOrder(k) =>
            /\ pc \in {k + 1, Exiting}
            /\ FailedBefore(k) = {}

\* C18 (amended): the stages run one at a time in the order of STEPS;
\* without --continue-on-error a stage never runs after a stage before it
\* failed, the invocation ending at the first failure.
StagesRunAfterSuccessUnlessContinuing ==
    \A k \in ChainSteps :
        RanInOrder(k) =>
            /\ pc \in {k + 1, Exiting}
            /\ ~continue_on_error =>
                  /\ FailedBefore(k) = {}
                  /\ ~last.ok => (pc = Exiting /\ failed = {k})

\* without the flag, the sentiment stage failed after a weekly-stats stage
\* that wrote rows: the invocation ends there, top active and dashboard
\* not started
AbortedAtSentimentWitness ==
    /\ ~continue_on_error
    /\ pc = Exiting
    /\ last.stage = "Sector sentiment"
    /\ ~last.ok
    /\ failed = {4}
    /\ Len(weekly_stats) > 0
    /\ sector_top_active = <<>>
    /\ out_json = NoFile

\* the ticker has a fundamentals record whose text is the JSON written for it
HasFundamentals(t) ==
    \E i \in 1..Len(fundamentals_latest) :
        /\ fundamentals_latest[i].ticker = t
        /\ fundamentals_latest[i].normalized_json = JsonDumps(t)

HasSentiment(sector) ==
    \E i \in 1..Len(sector_sentiment) : sector_sentiment[i].sector = sector

\* the row of the FLAT view and, when its sector has a sector object, the
\* entry of the NESTED view are there for the top-active row, without
\* fundamentals
EmittedWithoutFundamentals(top) ==
    /\ \E i \in 1..Len(out_csv.rows) :
          /\ out_csv.rows[i].sector = top.sector
          /\ out_csv.rows[i].rank = top.rank
          /\ out_csv.rows[i].ticker = top.ticker
          /\ out_csv.rows[i].shortName = NullStr
          /\ IsNull(out_csv.rows[i].marketCap)
    /\ HasSentiment(top.sector) =>
          \E b \in 1..Len(out_json.rows) :
              /\ out_json.rows[b].sector = top.sector
              /\ \E e \in 1..Len(out_json.rows[b].top10_active) :
                    /\ out_json.rows[b].top10_active[e].ticker = top.ticker
                    /\ out_json.rows[b].top10_active[e].fundamentals
                          = [shortName |-> NullStr, marketCap |-> Null]

\* C19: a ranked ticker whose fundamentals record is missing or unparsable
\* is emitted in the FLAT and NESTED views with null fundamentals, and the
\* dashboard stage does not fail for want of fundamentals, even of all.
MissingFundamentalsTolerated ==
    (/\ last.stage = "Dashboard (JSON/CSV)"
     /\ write_fault = "none"
     /\ Len(sector_sentiment) > 0
     /\ ~loads_raises(sector_sentiment)) =>
        /\ last.ok
        /\ \A i \in 1..Len(sector_top_active) :
              ~HasFundamentals(sector_top_active[i].ticker)
                  => EmittedWithoutFundamentals(sector_top_active[i])

\* the sector object of the sentiment row is in the NESTED view, without
\* diagnostics and with an entry for each of its top-active rows
EmittedWithoutDiagnostics(srow) ==
    \E b \in 1..Len(out_json.rows) :
        /\ out_json.rows[b].sector = srow.sector
        /\ out_json.rows[b].diagnostics = NullJson
        /\ \A i \in 1..Len(sector_top_active) :
              sector_top_active[i].sector = srow.sector =>
                  \E e \in 1..Len(out_json.rows[b].top10_active) :
                      /\ out_json.rows[b].top10_active[e].ticker
                            = sector_top_active[i].ticker
                      /\ out_json.rows[b].top10_active[e].rank
                            = sector_top_active[i].rank

\* C20: a diagnostics value that cannot be parsed does not make the dashboard
\* stage fail: the sector object is emitted with diagnostics null and with
\* all of its top-active entries.
UnparsableDiagnosticsTolerated ==
    (/\ last.stage = "Dashboard (JSON/CSV)"
     /\ write_fault = "none"
     /\ Len(sector_sentiment) > 0
     /\ Len(fundamentals_latest) > 0) =>
        /\ last.ok
        /\ \A i \in 1..Len(sector_sentiment) :
              sector_sentiment[i].diagnostics_json \in {NotJson, NullJson}
                  => EmittedWithoutDiagnostics(sector_sentiment[i])

----------------------------------------------------------------------------
(* Properties of the sentiment rows *)

\* every weekly_return and every vol_ratio of the rows is null
AllNull(rows) ==
    \A i \in 1..Len(rows) :
        IsNull(rows[i].weekly_return) /\ IsNull(rows[i].vol_ratio)

\* the row of a group without any statistic: both medians null, both their
\* signals 0, the score left to the breadth of 0
ScoredOnBreadthAlone(row) ==
    /\ IsNull(row.diagnostics_json.median_return)
    /\ IsNull(row.diagnostics_json.median_vol_ratio)
    /\ row.diagnostics_json.return_signal = RInt(0)
    /\ row.diagnostics_json.volume_signal = RInt(0)
    /\ row.diagnostics_json.breadth = RInt(0)
    /\ row.raw_score = Rat(-1, 2)

\* C21: scoring a retained group in which every weekly_return and every
\* vol_ratio is null gives one row, with return_signal and volume_signal 0.
AllNullGroupIsScored ==
    [][(g' = g /\ Len(g) >= 5 /\ AllNull(g))
           => (Len(scored') = 1 /\ ScoredOnBreadthAlone(scored'[1]))]_vars

\* five rows, all without statistics, scored Bearish with strength 50
AllNullGroupWitness ==
    /\ Len(g) = 5
    /\ AllNull(g)
    /\ Len(scored) = 1
    /\ scored[1].diagnostics_json.n_stocks = 5
    /\ scored[1].diagnostics_json.return_signal = RInt(0)
    /\ scored[1].diagnostics_json.volume_signal = RInt(0)
    /\ scored[1].direction = "Bearish"
    /\ scored[1].strength = 50

----------------------------------------------------------------------------
(* Properties of the NESTED view *)

\* the sector objects come by strength descending, then sector ascending
BlocksOrdered(blocks) ==
    \A i, j \in 1..Len(blocks) :
        i < j =>
            \/ blocks[i].strength > blocks[j].strength
            \/ /\ blocks[i].strength = blocks[j].strength
               /\ SectorIdx(blocks[i].sector) < SectorIdx(blocks[j].sector)

\* the entries of a sector object come by rank ascending
EntriesOrdered(entries) ==
    \A i, j \in 1..Len(entries) : i < j => entries[i].rank < entries[j].rank

\* there is one sector object for every sentiment row of the week
OnePerSector(blocks, sentiment) ==
    /\ Len(blocks) = Len(sentiment)
    /\ \A i \in 1..Len(sentiment) :
          \E b \in 1..Len(blocks) : blocks[b].sector = sentiment[i].sector

\* C22: the NESTED view lists one object per sector by strength descending
\* and then sector name ascending, the entries of each object by rank
\* ascending.
NestedViewOrdered ==
    DashboardRan =>
        /\ out_json.exists
        /\ OnePerSector(out_json.rows, sector_sentiment)
        /\ BlocksOrdered(out_json.rows)
        /\ \A b \in 1..Len(out_json.rows) :
              EntriesOrdered(out_json.rows[b].top10_active)

\* two sectors of the same strength stored Tech first, and the ranks of Fin
\* stored 2 before 1: the view has Fin, then Tech, and AAA before BBB
NestedTieWitness ==
    /\ DashboardRan
    /\ Len(sector_sentiment) = 2
    /\ sector_sentiment[1].sector = "Tech"
    /\ sector_sentiment[1].strength = sector_sentiment[2].strength
    /\ Len(sector_top_active) = 3
    /\ sector_top_active[1].sector = "Tech"
    /\ sector_top_active[2].rank = 2
    /\ Len(out_json.rows) = 2
    /\ out_json.rows[1].sector = "Fin"
    /\ Len(out_json.rows[1].top10_active) = 2
    /\ out_json.rows[1].top10_active[1].rank = 1

----------------------------------------------------------------------------
(* Properties of the trailing return *)

\* the sessions of S with exactly n sessions of S after them
Back(S, n) == {d \in S : Cardinality({e \in S : e > d}) = n}

\* return_7d over the closes of ticker t on the sessions S, those stored on
\* or before the week's ending date
TrailingReturn(r7, t, S) ==
    IF Cardinality(S) < 8
    THEN IsNull(r7)
    ELSE /\ ~IsNull(r7)
         /\ r7[1] * Close(t, Latest(Back(S, 7)))
               = (Close(t, Latest(S)) - Close(t, Latest(Back(S, 7)))) * r7[2]

\* C23: return_7d of a ranked ticker is close[t] / close[t-7] - 1 over its
\* known closes dated on or before the week's ending date, and null when
\* there are fewer than 8 of them.
TrailingReturnOverEightCloses ==
    DashboardRan =>
        \A i \in 1..Len(last.df) :
            TrailingReturn(last.df[i].return_7d, last.df[i].ticker,
                {d \in prices[last.df[i].ticker] : d <= last.week_ending})

\* the dashboard of week 8: AAA, listed on session 1, has 8 closes and a
\* return of 28/21 - 1; CCC, listed on session 2, has 7 and none
TrailingReturnWitness ==
    /\ DashboardRan
    /\ last.week_ending = 8
    /\ \E i, j \in 1..Len(last.df) :
          /\ last.df[i].ticker = "AAA"
          /\ last.df[i].return_7d = Rat(1, 3)
          /\ last.df[j].ticker = "CCC"
          /\ Cardinality(prices["CCC"]) = 7
          /\ IsNull(last.df[j].return_7d)

----------------------------------------------------------------------------
(* Properties of the week of a sector group *)

GroupingStageRan ==
    last.stage \in {"Sector sentiment", "Top active"} /\ last.ok

\* C24: the rows of weekly_stats grouped under one sector by the sentiment
\* stage or the ranking stage share one week_ending, the one written on the
\* rows the stage computes for that sector.
GroupSharesItsWeek ==
    GroupingStageRan =>
        \A i \in 1..Len(last.df) : \A j \in 1..Len(weekly_stats) :
            universe[weekly_stats[j].ticker] = last.df[i].sector
                => weekly_stats[j].week_ending = last.df[i].week_ending

----------------------------------------------------------------------------
(* Properties of the stored ranking *)

RankedOnce(table) ==
    \A i, j \in 1..Len(table) :
        (/\ table[i].sector = table[j].sector
         /\ table[i].week_ending = table[j].week_ending
         /\ table[i].ticker = table[j].ticker) => table[i].rank = table[j].rank

RankedInOwnSector(table) ==
    \A i \in 1..Len(table) : universe[table[i].ticker] = table[i].sector

\* C25: in sector_top_active a ticker holds at most one rank within a
\* (sector, week_ending), and every ranked ticker belongs to that sector in
\* the membership list.
TickerRankedOncePerWeek ==
    RankedOnce(sector_top_active) /\ RankedInOwnSector(sector_top_active)

----------------------------------------------------------------------------
(* Properties of direction and strength together *)

\* C26: direction and strength of a sentiment row agree: direction is
\* Neutral exactly when strength is below 5, and a row of strength 5 or more
\* is Bullish when raw_score > 0 and Bearish when raw_score < 0.
DirectionAgreesWithStrength ==
    \A i \in 1..Len(scored) :
        /\ scored[i].direction = "Neutral" <=> scored[i].strength < 5
        /\ scored[i].strength >= 5 =>
              scored[i].direction =
                  IF scored[i].raw.sign > 0 THEN "Bullish" ELSE "Bearish"

----------------------------------------------------------------------------
(* Properties of the published files *)

\* C27: run_pipeline writes docs/ only when all the steps of the invocation
\* have finished, so that what it publishes is what that invocation made.
PublishedAfterSteps == [][docs' # docs => pc = Exiting]_vars

----------------------------------------------------------------------------
(* Properties of the attempts of fetch_and_store_prices *)

AttemptsOn(k) == SelectSeq(tried, LAMBDA r : r.chunk = k)

\* the loop is past chunk k
DoneWith(k) == Len(tried) > 0 /\ (chunk_idx = 0 \/ chunk_idx > k)

AttemptsBounded ==
    \A k \in 1..Len(chunks) :
        /\ Len(AttemptsOn(k)) <= max_retries
        /\ \A j \in 1..Len(AttemptsOn(k)) :
              /\ AttemptsOn(k)[j].attempt = j
              /\ AttemptsOn(k)[j].ok => j = Len(AttemptsOn(k))
        /\ DoneWith(k) =>
              /\ Len(AttemptsOn(k)) >= 1
              /\ \/ AttemptsOn(k)[Len(AttemptsOn(k))].ok
                 \/ Len(AttemptsOn(k)) = max_retries

ChunksInOrder ==
    \A a, b \in 1..Len(tried) : a < b => tried[a].chunk <= tried[b].chunk

\* C28: a chunk is attempted at most max_retries times, its attempts stop at
\* the first upsert that succeeds or after max_retries failures, a chunk
\* given up does not keep the later chunks from being fetched, and the call
\* returns after every chunk was processed once, in order.
FetchRetriesThenReturns ==
    /\ [](AttemptsBounded /\ ChunksInOrder)
    /\ (chunk_idx # 0) ~> (chunk_idx = 0)

\* the first chunk was given up after max_retries failures, the second was
\* upserted at its second attempt, and the call has returned
GivenUpChunkWitness ==
    /\ chunk_idx = 0
    /\ Len(tried) = max_retries + 2
    /\ \A j \in 1..max_retries : tried[j].chunk = 1 /\ ~tried[j].ok
    /\ tried[max_retries + 1].chunk = 2 /\ ~tried[max_retries + 1].ok
    /\ tried[max_retries + 2].chunk = 2 /\ tried[max_retries + 2].ok

====
